---------------------------- MODULE Spec2Model ----------------------------
(* A model of sbom.py: discover the repositories under a root directory,     *)
(* parse requirements.txt / package.json / package-lock.json into records,   *)
(* stamp every record with the repository's commit hash and write the        *)
(* records to sbom.csv and sbom.json.                                        *)
(*                                                                           *)
(* A Python str is a sequence of one-character strings; Python's None is the *)
(* value None below, which is no such sequence.                              *)
EXTENDS Integers, Sequences, FiniteSets, TLC

(***************************************************************************)
(* Bounds of the model.                                                    *)
(***************************************************************************)
\* subdirectories of the scanned root
MaxRepos == 2
\* length of the requirements.txt lines that are enumerated exhaustively
MaxLineLen == 4
\* non-root entries of an enumerated package-lock.json
MaxEntries == 2
\* entries of an enumerated package.json "dependencies" object
MaxDeps == 2
\* runs of the program on the same tree
MaxRuns == 2

\* the length of the sentinel hash git_commit_hash returns (sbom.py:63)
HashLen == 40

(***************************************************************************)
(* Strings.                                                                *)
(***************************************************************************)
None == <<"<None>">>

Whitespace == {" ", "\t", "\n", "\r"}

RECURSIVE LStrip(_)
LStrip(s) == IF s # <<>> /\ s[1] \in Whitespace THEN LStrip(Tail(s)) ELSE s

RECURSIVE RStrip(_)
RStrip(s) ==
    IF s # <<>> /\ s[Len(s)] \in Whitespace
    THEN RStrip(SubSeq(s, 1, Len(s) - 1))
    ELSE s

\* str.strip()
Strip(s) == RStrip(LStrip(s))

\* str.startswith(p)
StartsWith(s, p) == Len(s) >= Len(p) /\ SubSeq(s, 1, Len(p)) = p

\* the least index at which sep occurs in s, 0 when it does not
Find(s, sep) ==
    LET hits == {k \in 1..(Len(s) - Len(sep) + 1) :
                    SubSeq(s, k, k + Len(sep) - 1) = sep}
    IN  IF hits = {} THEN 0 ELSE CHOOSE k \in hits : \A h \in hits : k <= h

\* str.split(sep): the list of the pieces between the occurrences of sep
RECURSIVE Split(_, _)
Split(s, sep) ==
    LET k == Find(s, sep)
    IN  IF k = 0
        THEN <<s>>
        ELSE <<SubSeq(s, 1, k - 1)>> \o Split(SubSeq(s, k + Len(sep), Len(s)), sep)

\* str.split(sep, 1)[0]: what precedes the first occurrence of sep
BeforeFirst(s, sep) ==
    LET k == Find(s, sep) IN IF k = 0 THEN s ELSE SubSeq(s, 1, k - 1)

\* the length of the longest prefix of s made of characters of set
RECURSIVE Span(_, _)
Span(s, set) ==
    IF s # <<>> /\ s[1] \in set THEN 1 + Span(Tail(s), set) ELSE 0

Drop(s, n) == SubSeq(s, n + 1, Len(s))

RECURSIVE Join(_, _)
Join(parts, sep) ==
    IF parts = <<>> THEN <<>>
    ELSE IF Len(parts) = 1 THEN parts[1]
    ELSE parts[1] \o sep \o Join(Tail(parts), sep)

RECURSIVE Concat(_)
Concat(parts) == IF parts = <<>> THEN <<>> ELSE parts[1] \o Concat(Tail(parts))

Range(f) == {f[x] : x \in DOMAIN f}

\* the sequences over S of length at most n
SeqsUpTo(S, n) == UNION {[1..k -> S] : k \in 0..n}

(***************************************************************************)
(* The pip parser: DEPENDENCY_PATTERN and the body of the line loop.       *)
(***************************************************************************)
OpChars == {"<", "=", ">", "~"}

\* DEPENDENCY_PATTERN.match(s) for ([^<=>~]+)(\s*[<=>~]+\s*)(.*)? : group 1 is
\* greedy, so it is the longest run of non-operator characters (it takes the
\* blanks before the operator too); the match fails when that run is empty or
\* no operator character follows it. Group 2 is then the operator run and the
\* blanks after it, and group 3 the rest of the line, possibly empty.
DEPENDENCY_PATTERN_truncating(s) ==
    LET n1 == Span(s, {s[k] : k \in 1..Len(s)} \ OpChars)
        r1 == Drop(s, n1)
        n2 == Span(r1, OpChars)
        r2 == Drop(r1, n2)
        n3 == Span(r2, Whitespace)
        r3 == Drop(r2, n3)
    IN  IF n1 = 0 \/ n2 = 0
        THEN [matched |-> FALSE, g1 |-> <<>>, g2 |-> <<>>, g3 |-> <<>>]
        ELSE [matched |-> TRUE,
              g1 |-> SubSeq(s, 1, n1),
              g2 |-> SubSeq(r1, 1, n2 + n3),
              g3 |-> BeforeFirst(r3, <<",">>)]

DEPENDENCY_PATTERN(s) ==
    LET n1 == Span(s, {s[k] : k \in 1..Len(s)} \ OpChars)
        r1 == Drop(s, n1)
        n2 == Span(r1, OpChars)
        r2 == Drop(r1, n2)
        n3 == Span(r2, Whitespace)
        r3 == Drop(r2, n3)
    IN  IF n1 = 0 \/ n2 = 0
        THEN [matched |-> FALSE, g1 |-> <<>>, g2 |-> <<>>, g3 |-> <<>>]
        ELSE [matched |-> TRUE,
              g1 |-> SubSeq(s, 1, n1),
              g2 |-> SubSeq(r1, 1, n2 + n3),
              g3 |-> r3]

\* Lines 120-140 for one line of requirements.txt: whether a record is made of
\* it, and the record's name and version.
ParseRequirement(line) ==
    LET raw_line == Strip(line)
        dependency_line == Strip(BeforeFirst(raw_line, <<"#">>))
        match == DEPENDENCY_PATTERN(dependency_line)
        skip == [emit |-> FALSE, name |-> <<>>, version |-> None]
    IN  IF raw_line = <<>> \/ StartsWith(raw_line, <<"#">>) THEN skip
        ELSE IF dependency_line = <<>> THEN skip
        ELSE IF ~match.matched THEN skip
        ELSE [emit |-> TRUE,
              name |-> Strip(match.g1),
              version |-> IF match.g3 # <<>>
                          THEN Strip(match.g2 \o match.g3)
                          ELSE None]

(***************************************************************************)
(* String constants of the program and of the modelled inputs.             *)
(***************************************************************************)
NODE_MODULES == <<"n", "o", "d", "e", "_", "m", "o", "d", "u", "l", "e", "s", "/">>

REQUIREMENTS_TXT == <<"r", "e", "q", "u", "i", "r", "e", "m", "e", "n", "t", "s", ".", "t", "x", "t">>
PACKAGE_JSON == <<"p", "a", "c", "k", "a", "g", "e", ".", "j", "s", "o", "n">>
PACKAGE_LOCK_JSON == <<"p", "a", "c", "k", "a", "g", "e", "-", "l", "o", "c", "k", ".", "j", "s", "o", "n">>

PIP == <<"p", "i", "p">>
NPM == <<"n", "p", "m">>

\* sbom_data[0], lines 110-112
Header == <<<<"n", "a", "m", "e">>, <<"v", "e", "r", "s", "i", "o", "n">>, <<"t", "y", "p", "e">>,
            <<"p", "a", "t", "h">>, <<"c", "o", "m", "m", "i", "t", "_", "h", "a", "s", "h">>>>

\* the value of the command line argument, the scanned root
DirPath == <<"d">>

Digits == <<"1", "2", "3", "4", "5", "6", "7", "8", "9">>

\* A repository is the index r of a subdirectory; its path is d/r<r>, so that
\* the order of the paths is the order of the indices.
RepoStr(r) == DirPath \o <<"/", "r", Digits[r]>>

\* str(repo_path / file)
FilePath(r, file) == RepoStr(r) \o <<"/">> \o file

lodash == <<"l", "o", "d", "a", "s", "h">>
semver == <<"s", "e", "m", "v", "e", "r">>
jest == <<"j", "e", "s", "t">>
flask == <<"f", "l", "a", "s", "k">>

(***************************************************************************)
(* The lockfile resolver.                                                  *)
(***************************************************************************)
\* path.split('node_modules/'): a repo's "packages" keys are install paths
\* under node_modules/
KeyParts(path) == Split(path, NODE_MODULES)

\* line 95: path.split('node_modules/')[1], the second piece (Python counts
\* from 0)
package_name(path) == KeyParts(path)[2]

\* the piece after the last separator
LastSegment(path) == KeyParts(path)[Len(KeyParts(path))]

\* line 92: package_info.get("dev") == True
IsDevIgnored(info) == FALSE

IsDev(info) == info.dev = "true"

\* lines 85-86: the names the root entry (the key "") declares
direct_dependencies(packages) ==
    LET roots == {k \in 1..Len(packages) : packages[k].path = <<>>}
    IN  IF roots = {} THEN {} ELSE UNION {packages[k].dependencies : k \in roots}

\* lines 89-97 for one entry of "packages": whether a record is made of it,
\* and the record's name and version
ResolveEntry(entry, direct) ==
    LET skip == [emit |-> FALSE, name |-> <<>>, version |-> <<>>]
    IN  IF entry.path = <<>> THEN skip
        ELSE IF IsDev(entry) THEN skip
        ELSE IF package_name(entry.path) \in direct THEN skip
        ELSE [emit |-> TRUE,
              name |-> package_name(entry.path),
              version |-> IF entry.version = None THEN <<>> ELSE entry.version]

(***************************************************************************)
(* The report writers, and the readers that read the files back.           *)
(***************************************************************************)
\* lines 174 and 190
NothingToReportNever(sbom) == Len(sbom) < 1

NothingToReport(sbom) == Len(sbom) < 2

RECURSIVE DoubleQuotes(_)
DoubleQuotes(s) ==
    IF s = <<>> THEN <<>>
    ELSE (IF s[1] = "\"" THEN <<"\"", "\"">> ELSE <<s[1]>>) \o DoubleQuotes(Tail(s))

\* csv.writer with delimiter "," and lineterminator "\n" (the excel dialect
\* otherwise: minimal quoting, doubled quote characters): None is written as
\* the empty field, a field holding the delimiter, the quote character or a
\* character of the line terminator is quoted.
CsvField(v) ==
    LET s == IF v = None THEN <<>> ELSE v
    IN  IF \E k \in 1..Len(s) : s[k] \in {",", "\"", "\n"}
        THEN <<"\"">> \o DoubleQuotes(s) \o <<"\"">>
        ELSE s

\* csv_writer.writerow(row)
CsvRow(row) ==
    Join([k \in 1..Len(row) |-> CsvField(row[k])], <<",">>) \o <<"\n">>

\* lines 182-183: the text of sbom.csv
CsvText(sbom) == Concat([k \in 1..Len(sbom) |-> CsvRow(sbom[k])])

\* csv.reader over the text (the excel dialect). The reader is a state
\* machine over the characters; CsvStep is its transition on one character.
CsvStep(st, c) ==
    CASE st \in {"START_RECORD", "START_FIELD"} ->
           (CASE c = "\n" -> "START_RECORD"
              [] c = "\"" -> "IN_QUOTED_FIELD"
              [] c = "," -> "START_FIELD"
              [] OTHER -> "IN_FIELD")
      [] st = "IN_FIELD" ->
           (CASE c = "\n" -> "START_RECORD"
              [] c = "," -> "START_FIELD"
              [] OTHER -> "IN_FIELD")
      [] st = "IN_QUOTED_FIELD" ->
           (IF c = "\"" THEN "QUOTE_IN_QUOTED_FIELD" ELSE "IN_QUOTED_FIELD")
      [] st = "QUOTE_IN_QUOTED_FIELD" ->
           (CASE c = "\"" -> "IN_QUOTED_FIELD"
              [] c = "," -> "START_FIELD"
              [] c = "\n" -> "START_RECORD"
              [] OTHER -> "IN_FIELD")

\* whether the reader, in state st, adds the character c to the field
CsvKeeps(st, c) ==
    CASE st \in {"START_RECORD", "START_FIELD"} -> c \notin {"\n", "\"", ","}
      [] st = "IN_FIELD" -> c \notin {"\n", ","}
      [] st = "IN_QUOTED_FIELD" -> c # "\""
      [] st = "QUOTE_IN_QUOTED_FIELD" -> c \notin {"\n", ","}

\* the reader's state before each of the characters lo..hi of t, from its
\* state st before character lo
RECURSIVE CsvScan(_, _, _, _)
CsvScan(t, lo, hi, st) ==
    IF lo > hi THEN <<>>
    ELSE IF lo = hi THEN <<st>>
    ELSE LET mid == (lo + hi) \div 2
             left == CsvScan(t, lo, mid, st)
         IN  left \o CsvScan(t, mid + 1, hi, CsvStep(left[Len(left)], t[mid]))

\* the members of a set of numbers in ascending order
Ascending(S) ==
    [k \in 1..Cardinality(S) |-> CHOOSE x \in S : Cardinality({y \in S : y < x}) = k - 1]

\* the rows the reader yields, each the list of its fields
CsvRows(text) ==
    LET n == Len(text)
        sts == CsvScan(text, 1, n, "START_RECORD")
        rowEnds == {k \in 1..n : sts[k] # "IN_QUOTED_FIELD" /\ text[k] = "\n"}
        fieldEnds == {k \in 1..n : sts[k] # "IN_QUOTED_FIELD" /\ text[k] = ","}
        \* a last row that no newline ends is ended by the end of the text
        ends == Ascending(rowEnds \cup (IF n > 0 /\ n \notin rowEnds THEN {n + 1} ELSE {}))
        Field(lo, hi) ==
            LET kept == SelectSeq([m \in 1..(hi - lo + 1) |-> lo + m - 1],
                                  LAMBDA k : CsvKeeps(sts[k], text[k]))
            IN  [m \in 1..Len(kept) |-> text[kept[m]]]
        Row(first, end) ==
            IF first = end /\ end <= n THEN <<>>
            ELSE LET cuts == <<first - 1>>
                                \o Ascending({k \in fieldEnds : first <= k /\ k < end})
                                \o <<end>>
                 IN  [f \in 1..(Len(cuts) - 1) |-> Field(cuts[f] + 1, cuts[f + 1] - 1)]
    IN  [r \in 1..Len(ends) |-> Row(IF r = 1 THEN 1 ELSE ends[r - 1] + 1, ends[r])]

\* the records of a written sbom.csv: the rows after the header row
CsvReadBack(text) ==
    LET rows == CsvRows(text) IN {rows[k] : k \in 2..Len(rows)}

JSON_NULL == <<"n", "u", "l", "l">>

RECURSIVE JsonEscape(_)
JsonEscape(s) ==
    IF s = <<>> THEN <<>>
    ELSE (CASE s[1] = "\"" -> <<"\\", "\"">>
            [] s[1] = "\\" -> <<"\\", "\\">>
            [] s[1] = "\n" -> <<"\\", "n">>
            [] s[1] = "\t" -> <<"\\", "t">>
            [] s[1] = "\r" -> <<"\\", "r">>
            [] OTHER -> <<s[1]>>) \o JsonEscape(Tail(s))

RECURSIVE JsonUnescape(_)
JsonUnescape(s) ==
    IF s = <<>> THEN <<>>
    ELSE IF s[1] = "\\" /\ Len(s) >= 2
         THEN <<(CASE s[2] = "n" -> "\n"
                   [] s[2] = "t" -> "\t"
                   [] s[2] = "r" -> "\r"
                   [] OTHER -> s[2])>> \o JsonUnescape(Drop(s, 2))
         ELSE <<s[1]>> \o JsonUnescape(Tail(s))

\* json.dump of one value of a row: None is null, a str a quoted literal
JsonValue(v) ==
    IF v = None THEN JSON_NULL ELSE <<"\"">> \o JsonEscape(v) \o <<"\"">>

\* json.load of that text
JsonLoadValue(text) ==
    IF text = JSON_NULL THEN None ELSE JsonUnescape(SubSeq(text, 2, Len(text) - 1))

\* lines 198-204: sbom.json is the array of one object per data row; an object
\* is the list of its members (key, text of the value) in the header's order
JsonObjects(sbom) ==
    [k \in 1..(Len(sbom) - 1) |->
        [m \in 1..Len(sbom[1]) |-> [key |-> sbom[1][m], value |-> JsonValue(sbom[k + 1][m])]]]

\* the records of a written sbom.json, each as the tuple of its values in the
\* order name, version, type, path, commit_hash
JsonReadBack(objects) ==
    {[m \in 1..Len(Header) |->
        LET member == CHOOSE x \in Range(obj) : x.key = Header[m]
        IN  JsonLoadValue(member.value)] : obj \in Range(objects)}

(***************************************************************************)
(* The inputs: the tree under the root and the state of git.               *)
(***************************************************************************)
V4 == <<"4", ".", "1", "7", ".", "2", "1">>
V7 == <<"7", ".", "0", ".", "0">>
V29 == <<"2", "9", ".", "0", ".", "0">>
CARET_V4 == <<"^", "4", ".", "1", "7", ".", "2", "1">>

\* A subdirectory: its requirements.txt (the lines, without their newline),
\* its package.json (the members of "dependencies", in the file's order) and
\* its package-lock.json (the members of "packages", in the file's order).
EmptyDir ==
    [has_req |-> FALSE, req |-> <<>>, has_pkg |-> FALSE, pkg |-> <<>>,
     has_lock |-> FALSE, lock |-> <<>>]

ReqDir(lines) == [EmptyDir EXCEPT !.has_req = TRUE, !.req = lines]
PkgDir(deps) == [EmptyDir EXCEPT !.has_pkg = TRUE, !.pkg = deps]
LockDir(deps, packages) ==
    [EmptyDir EXCEPT !.has_pkg = TRUE, !.pkg = deps, !.has_lock = TRUE, !.lock = packages]

\* a member of "dependencies"
Dep(name, version) == [name |-> name, version |-> version]

\* a member of "packages": dev is "absent", "true" or "false"; version is None
\* when the entry has no "version"; dependencies is the set of the keys of its
\* "dependencies"
Entry(path, dev, version) ==
    [path |-> path, dev |-> dev, version |-> version, dependencies |-> {}]
RootEntry(names) ==
    [path |-> <<>>, dev |-> "absent", version |-> None, dependencies |-> names]

KeyLodash == NODE_MODULES \o lodash
KeyNestedSemver == NODE_MODULES \o lodash \o <<"/">> \o NODE_MODULES \o semver
KeySemver == NODE_MODULES \o semver
KeyJest == NODE_MODULES \o jest

LineNumpy == <<"n", "u", "m", "p", "y", "=", "=", "1", ".", "2", ".", "3", " ", " ", "#", " ", "p", "i", "n", "n", "e", "d">>
LineComment == <<"#", " ", "c", "o", "m", "m", "e", "n", "t">>
LineFlaskOp == <<"f", "l", "a", "s", "k", ">", "=">>
LineCompound == <<"p", "k", "g", ">", "=", "1", ".", "0", ",", "<", "2", ".", "0">>
LineQuoted == <<"a", "\"", "b", " ", "=", "=", " ", "1">>

ReqA == <<LineNumpy, LineComment, LineFlaskOp>>
PkgA == <<Dep(lodash, CARET_V4)>>
LockA == <<RootEntry({lodash}),
           Entry(KeyLodash, "absent", V4),
           Entry(KeyNestedSemver, "absent", V7),
           Entry(KeyJest, "true", V29)>>

DirChoices ==
    {[d EXCEPT !.has_req = hr, !.req = IF hr THEN ReqA ELSE <<>>] :
        hr \in BOOLEAN, d \in {EmptyDir, PkgDir(PkgA), LockDir(PkgA, LockA)}}

MixedTrees == [1..MaxRepos -> DirChoices]

OnlyFirst(dir) == [r \in 1..MaxRepos |-> IF r = 1 THEN dir ELSE EmptyDir]

LineAlphabet == {"p", ">", "=", " ", "#"}
Lines ==
    SeqsUpTo(LineAlphabet, MaxLineLen)
        \cup {flask, LineNumpy, LineComment, LineFlaskOp, LineCompound, LineQuoted}

PipTrees == {OnlyFirst(ReqDir(<<line>>)) : line \in Lines}

\* the members of a parsed JSON object have distinct keys
Distinct(keys) == \A a, b \in 1..Len(keys) : a # b => keys[a] # keys[b]

EntryChoices ==
    {Entry(path, dev, V7) :
        path \in {KeyLodash, KeyNestedSemver, KeySemver}, dev \in {"absent", "true", "false"}}
        \cup {Entry(KeySemver, "absent", None)}

LockChoices ==
    {root \o es :
        root \in {<<>>, <<RootEntry({})>>, <<RootEntry({lodash})>>},
        es \in {x \in SeqsUpTo(EntryChoices, MaxEntries) : Distinct([k \in 1..Len(x) |-> x[k].path])}}

LockTrees == {OnlyFirst(LockDir(PkgA, packages)) : packages \in LockChoices}

PkgChoices ==
    {x \in SeqsUpTo({Dep(n, CARET_V4) : n \in {lodash, semver, <<>>}}, MaxDeps) :
        Distinct([k \in 1..Len(x) |-> x[k].name])}

NpmTrees == {OnlyFirst(PkgDir(deps)) : deps \in PkgChoices}

\* What subprocess.run(["git", "log", "--format=%H", "-n", "1"], check=True)
\* does in a repository: it returns (stdout is the hash and a newline), raises
\* CalledProcessError (git exited non-zero, stderr holds its message) or raises
\* FileNotFoundError (there is no git executable).
CommitHash == [k \in 1..HashLen |-> IF k % 2 = 0 THEN "a" ELSE "7"]
GitOk == [kind |-> "ok", stdout |-> CommitHash \o <<"\n">>, stderr |-> <<>>]
GitFail ==
    [kind |-> "CalledProcessError", stdout |-> <<>>,
     stderr |-> <<"f", "a", "t", "a", "l", ":", " ", "x", "\n">>]
GitMissing == [kind |-> "FileNotFoundError", stdout |-> <<>>, stderr |-> <<>>]

AllOk == [r \in 1..MaxRepos |-> GitOk]
GitEnvs == [1..MaxRepos -> {GitOk, GitFail}] \cup {[r \in 1..MaxRepos |-> GitMissing]}

(***************************************************************************)
(* The state of a run.                                                     *)
(***************************************************************************)
VARIABLES
    tree,                  \* the subdirectories of the root: index -> directory
    git,                   \* index -> what git does in that subdirectory
    files,                 \* sbom.csv and sbom.json in the root
    pc,                    \* the place the run has reached
    run,                   \* the number of the run
    prev,                  \* what the run before this one left
    repos,                 \* get_all_repos' result
    i,                     \* the place of repo_path in the list being walked
    j,                     \* the place of the line or the lockfile entry
    sbom_data,
    indirect_dependencies,
    log                    \* what the run has printed

vars ==
    <<tree, git, files, pc, run, prev, repos, i, j, sbom_data,
      indirect_dependencies, log>>

Msg(msg, n, text) == [msg |-> msg, n |-> n, text |-> text]

NoRepos == [requirements_repos |-> <<>>, package_json_repos |-> <<>>]
NoFiles ==
    [csv |-> [written |-> FALSE, text |-> <<>>],
     json |-> [written |-> FALSE, objects |-> <<>>]]

\* list.sort() of a list of paths (lines 38-39)
SortPathsNot(paths) == paths

SortPaths(paths) == SortSeq(paths, LAMBDA a, b : a < b)

\* git_commit_hash(repo_path), lines 45-67: whether an exception leaves it,
\* the value it returns and the lines it prints
git_commit_hash_uncaught(r) ==
    CASE git[r].kind = "ok" ->
           [raised |-> FALSE, ret |-> Strip(git[r].stdout), out |-> <<>>]
      [] git[r].kind = "CalledProcessError" ->
           [raised |-> FALSE,
            ret |-> [k \in 1..HashLen |-> "0"],
            out |-> <<Msg("git_error", r, RepoStr(r)),
                      Msg("git_stderr", r, Strip(git[r].stderr))>>]
      [] git[r].kind = "FileNotFoundError" ->
           [raised |-> TRUE, ret |-> <<>>, out |-> <<>>]

git_commit_hash(r) ==
    CASE git[r].kind = "ok" ->
           [raised |-> FALSE, ret |-> Strip(git[r].stdout), out |-> <<>>]
      [] git[r].kind = "CalledProcessError" ->
           [raised |-> FALSE,
            ret |-> [k \in 1..HashLen |-> "0"],
            out |-> <<Msg("git_error", r, RepoStr(r)),
                      Msg("git_stderr", r, Strip(git[r].stderr))>>]
      [] git[r].kind = "FileNotFoundError" ->
           [raised |-> FALSE, ret |-> <<>>, out |-> <<Msg("git_missing", r, <<>>)>>]

\* an exception nothing catches ends the run
Crash ==
    /\ pc' = "crashed"
    /\ UNCHANGED <<tree, git, files, run, prev, repos, i, j, sbom_data,
                   indirect_dependencies, log>>

Init ==
    /\ \/ tree \in MixedTrees /\ git \in GitEnvs
       \/ tree \in PipTrees \cup LockTrees \cup NpmTrees /\ git = AllOk
    /\ files = NoFiles
    /\ pc = "get_all_repos"
    /\ run = 1
    /\ prev = [sbom_data |-> <<>>, files |-> NoFiles, log |-> <<>>]
    /\ repos = NoRepos
    /\ i = 1
    /\ j = 1
    /\ sbom_data = <<>>
    /\ indirect_dependencies = <<>>
    /\ log = <<>>

(***************************************************************************)
(* get_all_repos, lines 18-43, and lines 109-112 of create_sbom_data.       *)
(* iterdir() yields the subdirectories in an order the file system picks;  *)
(* an entry of the root that is no directory is passed over (line 28).     *)
(***************************************************************************)
IterdirOrders ==
    {o \in [1..MaxRepos -> 1..MaxRepos] : \A a, b \in 1..MaxRepos : a # b => o[a] # o[b]}

get_all_repos ==
    /\ pc = "get_all_repos"
    /\ \E order \in IterdirOrders :
         LET reqs == SelectSeq(order, LAMBDA r : tree[r].has_req)
             pkgs == SelectSeq(order, LAMBDA r : tree[r].has_pkg)
         IN  /\ repos' = [requirements_repos |-> SortPaths(reqs),
                          package_json_repos |-> SortPaths(pkgs)]
             /\ log' = Append(log, Msg("found", Len(reqs) + Len(pkgs), DirPath))
    /\ sbom_data' = <<Header>>
    /\ indirect_dependencies' = <<>>
    /\ i' = 1
    /\ j' = 1
    /\ pc' = "pip"
    /\ UNCHANGED <<tree, git, files, run, prev>>

(***************************************************************************)
(* create_sbom_data: the pip pass, lines 114-146.                          *)
(***************************************************************************)
PipLine ==
    /\ pc = "pip"
    /\ i <= Len(repos.requirements_repos)
    /\ LET repo_path == repos.requirements_repos[i]
       IN  /\ j <= Len(tree[repo_path].req)
           /\ LET parsed == ParseRequirement(tree[repo_path].req[j])
                  hash == git_commit_hash(repo_path)
              IN  IF ~parsed.emit
                  THEN /\ j' = j + 1
                       /\ UNCHANGED <<pc, sbom_data, log>>
                  ELSE IF hash.raised
                  THEN /\ pc' = "crashed"
                       /\ UNCHANGED <<j, sbom_data, log>>
                  ELSE /\ sbom_data' =
                            Append(sbom_data,
                                   <<parsed.name, parsed.version, PIP,
                                     FilePath(repo_path, REQUIREMENTS_TXT), hash.ret>>)
                       /\ log' = log \o hash.out
                       /\ j' = j + 1
                       /\ pc' = pc
    /\ UNCHANGED <<tree, git, files, run, prev, repos, i, indirect_dependencies>>

PipNextRepo ==
    /\ pc = "pip"
    /\ i <= Len(repos.requirements_repos)
    /\ j > Len(tree[repos.requirements_repos[i]].req)
    /\ i' = i + 1
    /\ j' = 1
    /\ UNCHANGED <<tree, git, files, pc, run, prev, repos, sbom_data,
                   indirect_dependencies, log>>

PipDone ==
    /\ pc = "pip"
    /\ i > Len(repos.requirements_repos)
    /\ pc' = "npm_direct"
    /\ i' = 1
    /\ j' = 1
    /\ UNCHANGED <<tree, git, files, run, prev, repos, sbom_data,
                   indirect_dependencies, log>>

(***************************************************************************)
(* create_sbom_data: the npm pass over one package.json, lines 148-163.    *)
(***************************************************************************)
NpmDirectRepo ==
    /\ pc = "npm_direct"
    /\ i <= Len(repos.package_json_repos)
    /\ LET repo_path == repos.package_json_repos[i]
           dependencies == tree[repo_path].pkg
           hash == git_commit_hash(repo_path)
       IN  IF dependencies # <<>> /\ hash.raised
           THEN /\ pc' = "crashed"
                /\ UNCHANGED <<i, sbom_data, log>>
           ELSE /\ sbom_data' =
                     sbom_data \o
                     [k \in 1..Len(dependencies) |->
                        <<dependencies[k].name, dependencies[k].version, NPM,
                          FilePath(repo_path, PACKAGE_JSON), hash.ret>>]
                /\ log' = log \o Concat([k \in 1..Len(dependencies) |-> hash.out])
                /\ i' = i + 1
                /\ pc' = pc
    /\ UNCHANGED <<tree, git, files, run, prev, repos, j, indirect_dependencies>>

NpmDirectDone ==
    /\ pc = "npm_direct"
    /\ i > Len(repos.package_json_repos)
    /\ pc' = "indirect"
    /\ i' = 1
    /\ UNCHANGED <<tree, git, files, run, prev, repos, j, sbom_data,
                   indirect_dependencies, log>>

(***************************************************************************)
(* get_indirect_dependencies, lines 70-101, and lines 165-169.             *)
(***************************************************************************)
\* lines 75-83: open the lockfile; without one, print and go on to the next
\* repository
OpenLockBreaking ==
    /\ pc = "indirect"
    /\ i <= Len(repos.package_json_repos)
    /\ LET repo_path == repos.package_json_repos[i]
       IN  IF tree[repo_path].has_lock
           THEN /\ pc' = "indirect_entries"
                /\ j' = 1
                /\ UNCHANGED <<i, log>>
           ELSE /\ log' = Append(log, Msg("lock_missing", repo_path,
                                          FilePath(repo_path, PACKAGE_LOCK_JSON)))
                /\ i' = Len(repos.package_json_repos) + 1
                /\ UNCHANGED <<pc, j>>
    /\ UNCHANGED <<tree, git, files, run, prev, repos, sbom_data, indirect_dependencies>>

OpenLock ==
    /\ pc = "indirect"
    /\ i <= Len(repos.package_json_repos)
    /\ LET repo_path == repos.package_json_repos[i]
       IN  IF tree[repo_path].has_lock
           THEN /\ pc' = "indirect_entries"
                /\ j' = 1
                /\ UNCHANGED <<i, log>>
           ELSE /\ log' = Append(log, Msg("lock_missing", repo_path,
                                          FilePath(repo_path, PACKAGE_LOCK_JSON)))
                /\ i' = i + 1
                /\ UNCHANGED <<pc, j>>
    /\ UNCHANGED <<tree, git, files, run, prev, repos, sbom_data, indirect_dependencies>>

\* lines 88-99 for one member of "packages"
LockEntry ==
    /\ pc = "indirect_entries"
    /\ LET repo_path == repos.package_json_repos[i]
           packages == tree[repo_path].lock
       IN  /\ j <= Len(packages)
           /\ LET resolved == ResolveEntry(packages[j], direct_dependencies(packages))
                  hash == git_commit_hash(repo_path)
              IN  IF ~resolved.emit
                  THEN /\ j' = j + 1
                       /\ UNCHANGED <<pc, indirect_dependencies, log>>
                  ELSE IF hash.raised
                  THEN /\ pc' = "crashed"
                       /\ UNCHANGED <<j, indirect_dependencies, log>>
                  ELSE /\ indirect_dependencies' =
                            Append(indirect_dependencies,
                                   <<resolved.name, resolved.version, NPM,
                                     FilePath(repo_path, PACKAGE_LOCK_JSON), hash.ret>>)
                       /\ log' = log \o hash.out
                       /\ j' = j + 1
                       /\ pc' = pc
    /\ UNCHANGED <<tree, git, files, run, prev, repos, i, sbom_data>>

LockDone ==
    /\ pc = "indirect_entries"
    /\ j > Len(tree[repos.package_json_repos[i]].lock)
    /\ pc' = "indirect"
    /\ i' = i + 1
    /\ j' = 1
    /\ UNCHANGED <<tree, git, files, run, prev, repos, sbom_data,
                   indirect_dependencies, log>>

\* lines 101 and 167-169
IndirectDone ==
    /\ pc = "indirect"
    /\ i > Len(repos.package_json_repos)
    /\ sbom_data' = sbom_data \o indirect_dependencies
    /\ pc' = "create_sbom_csv"
    /\ UNCHANGED <<tree, git, files, run, prev, repos, i, j,
                   indirect_dependencies, log>>

(***************************************************************************)
(* create_sbom_csv, lines 171-185, and create_sbom_json, lines 187-206.    *)
(***************************************************************************)
create_sbom_csv ==
    /\ pc = "create_sbom_csv"
    /\ IF NothingToReport(sbom_data)
       THEN /\ log' = Append(log, Msg("csv_skipped", 0, <<>>))
            /\ UNCHANGED files
       ELSE /\ files' = [files EXCEPT !.csv = [written |-> TRUE, text |-> CsvText(sbom_data)]]
            /\ log' = Append(log, Msg("csv_saved", 0, DirPath))
    /\ pc' = "create_sbom_json"
    /\ UNCHANGED <<tree, git, run, prev, repos, i, j, sbom_data, indirect_dependencies>>

create_sbom_json ==
    /\ pc = "create_sbom_json"
    /\ IF NothingToReport(sbom_data)
       THEN /\ log' = Append(log, Msg("json_skipped", 0, <<>>))
            /\ UNCHANGED files
       ELSE /\ files' = [files EXCEPT
                            !.json = [written |-> TRUE, objects |-> JsonObjects(sbom_data)]]
            /\ log' = Append(log, Msg("json_saved", 0, DirPath))
    /\ pc' = "done"
    /\ UNCHANGED <<tree, git, run, prev, repos, i, j, sbom_data, indirect_dependencies>>

\* the program is run again on the tree as the run before left it
RunAgain ==
    /\ pc = "done"
    /\ run < MaxRuns
    /\ run' = run + 1
    /\ prev' = [sbom_data |-> sbom_data, files |-> files, log |-> log]
    /\ pc' = "get_all_repos"
    /\ repos' = NoRepos
    /\ i' = 1
    /\ j' = 1
    /\ sbom_data' = <<>>
    /\ indirect_dependencies' = <<>>
    /\ log' = <<>>
    /\ UNCHANGED <<tree, git, files>>

Next ==
    \/ get_all_repos
    \/ PipLine
    \/ PipNextRepo
    \/ PipDone
    \/ NpmDirectRepo
    \/ NpmDirectDone
    \/ OpenLock
    \/ LockEntry
    \/ LockDone
    \/ IndirectDone
    \/ create_sbom_csv
    \/ create_sbom_json
    \/ RunAgain

Spec == Init /\ [][Next]_vars

(***************************************************************************)
(* Vocabulary of the properties.                                           *)
(***************************************************************************)
NAME == 1
VERSION == 2
TYPE == 3
PATH == 4
COMMIT_HASH == 5

\* the records made so far: the data rows of sbom_data, and the rows
\* get_indirect_dependencies holds before line 167 appends them
Emitted ==
    SubSeq(sbom_data, 2, Len(sbom_data))
        \o (IF pc \in {"indirect", "indirect_entries"} THEN indirect_dependencies ELSE <<>>)

\* the records made from one file, in the order they were made
RecordsOf(path) == SelectSeq(Emitted, LAMBDA rec : rec[PATH] = path)

Column(records, c) == [k \in 1..Len(records) |-> records[k][c]]

Count(seq, Test(_)) == Len(SelectSeq(seq, Test))

Printed(msg, n) == Count(log, LAMBDA m : m.msg = msg /\ m.n = n)

IsAscending(paths) == \A a, b \in 1..Len(paths) : a < b => paths[a] < paths[b]

\* the repository whose lockfile the run is walking, and that lockfile
CurrentRepo == repos.package_json_repos[i]
CurrentLock == tree[CurrentRepo].lock

(***************************************************************************)
(* C1: the name of a lockfile entry is the path segment after the LAST     *)
(* node_modules/ of its key, and an indirect record is made of a non-root, *)
(* non-dev entry exactly when that name is not a direct dependency of the  *)
(* root: once a lockfile has been walked, the names of its records are the *)
(* last segments of those entries, in the file's order.                    *)
(***************************************************************************)
C1_NameIsLastSegment ==
    (pc = "indirect_entries" /\ j > Len(CurrentLock)) =>
        LET direct == direct_dependencies(CurrentLock)
            due == SelectSeq(CurrentLock,
                             LAMBDA e : /\ e.path # <<>>
                                        /\ e.dev # "true"
                                        /\ LastSegment(e.path) \notin direct)
        IN  Column(RecordsOf(FilePath(CurrentRepo, PACKAGE_LOCK_JSON)), NAME)
                = [k \in 1..Len(due) |-> LastSegment(due[k].path)]

(***************************************************************************)
(* C2: every line of requirements.txt that is not blank, not a comment and *)
(* begins with a name yields exactly one pip record; the line "flask"      *)
(* yields the record named flask with no version.                          *)
(***************************************************************************)
HasName(line) ==
    LET raw_line == Strip(line)
        dependency_line == Strip(BeforeFirst(raw_line, <<"#">>))
    IN  /\ raw_line # <<>>
        /\ ~StartsWith(raw_line, <<"#">>)
        /\ dependency_line # <<>>
        /\ dependency_line[1] \notin OpChars

C2_EveryNamedLineYieldsOneRecord ==
    (pc = "pip" /\ i <= Len(repos.requirements_repos)
        /\ j > Len(tree[repos.requirements_repos[i]].req)) =>
        LET repo_path == repos.requirements_repos[i]
            records == RecordsOf(FilePath(repo_path, REQUIREMENTS_TXT))
        IN  /\ Len(records) = Count(tree[repo_path].req, HasName)
            /\ tree[repo_path].req = <<flask>> =>
                  /\ Column(records, NAME) = <<flask>>
                  /\ Column(records, VERSION) = <<None>>
                  /\ Column(records, TYPE) = <<PIP>>

(***************************************************************************)
(* C3: the records read back from the sbom.csv and from the sbom.json of   *)
(* one run are the same set of (name, version, type, path, commit_hash)    *)
(* tuples, records without a version included.                             *)
(***************************************************************************)
C3_CsvAndJsonReadBackAgree ==
    (pc = "done" /\ files.csv.written /\ files.json.written) =>
        CsvReadBack(files.csv.text) = JsonReadBack(files.json.objects)

(***************************************************************************)
(* C4: every record has a non-empty name and the type pip or npm.          *)
(***************************************************************************)
C4_NameAndTypeNeverEmpty ==
    \A k \in 1..Len(Emitted) :
        /\ Emitted[k][NAME] # <<>>
        /\ Emitted[k][TYPE] \in {PIP, NPM}

(***************************************************************************)
(* C5: with no data record, neither writer writes its file and each prints *)
(* its skip message once; with at least one data record both files are     *)
(* written.                                                                *)
(***************************************************************************)
C5_HeaderOnlyWritesNothing ==
    pc = "done" =>
        IF Len(sbom_data) = 1
        THEN /\ ~files.csv.written
             /\ ~files.json.written
             /\ Printed("csv_skipped", 0) = 1
             /\ Printed("json_skipped", 0) = 1
             /\ Printed("csv_saved", 0) = 0
             /\ Printed("json_saved", 0) = 0
        ELSE /\ files.csv.written
             /\ files.json.written
             /\ Len(CsvRows(files.csv.text)) = Len(sbom_data)
             /\ Len(files.json.objects) = Len(sbom_data) - 1
             /\ Printed("csv_skipped", 0) = 0
             /\ Printed("json_skipped", 0) = 0

C5_Witness ==
    /\ pc = "done"
    /\ Len(sbom_data) = 1
    /\ \E r \in 1..MaxRepos : tree[r].has_req \/ tree[r].has_pkg
    /\ Printed("csv_skipped", 0) = 1
    /\ Printed("json_skipped", 0) = 1

(***************************************************************************)
(* C6: a second run on the unchanged tree makes the same record sequence   *)
(* and the same two files as the first, in whatever order the directory is *)
(* listed: every pass walks the repositories in ascending path order.      *)
(***************************************************************************)
C6_RunsAgree ==
    /\ IsAscending(repos.requirements_repos)
    /\ IsAscending(repos.package_json_repos)
    /\ (pc = "done" /\ run > 1) =>
          /\ sbom_data = prev.sbom_data
          /\ files = prev.files
          /\ files.csv.written => files.csv.text = CsvText(sbom_data)

C6_Witness ==
    /\ pc = "done"
    /\ run = 2
    /\ Len(repos.requirements_repos) >= 2
    /\ Len(repos.package_json_repos) >= 2
    /\ \E r \in 1..MaxRepos : RecordsOf(FilePath(r, PACKAGE_LOCK_JSON)) # <<>>
    /\ sbom_data = prev.sbom_data

(***************************************************************************)
(* C7: no call of git_commit_hash raises, and each ends in one of three    *)
(* ways: git's output without its newline is returned; git failed, two     *)
(* lines are printed and forty zeros are returned; git is missing, one     *)
(* line is printed and the empty string is returned. So every record of a  *)
(* repository carries the value that belongs to what git does there.       *)
(***************************************************************************)
FilesOf(r) ==
    {FilePath(r, REQUIREMENTS_TXT), FilePath(r, PACKAGE_JSON), FilePath(r, PACKAGE_LOCK_JSON)}

C7_ThreeOutcomes ==
    /\ pc # "crashed"
    /\ \A r \in 1..MaxRepos :
         LET records == SelectSeq(Emitted, LAMBDA rec : rec[PATH] \in FilesOf(r))
             hashes == Range(Column(records, COMMIT_HASH))
         IN  CASE git[r].kind = "ok" ->
                    /\ \A h \in hashes : git[r].stdout = h \o <<"\n">>
                    /\ Printed("git_error", r) = 0
                    /\ Printed("git_missing", r) = 0
               [] git[r].kind = "CalledProcessError" ->
                    /\ \A h \in hashes :
                          Len(h) = 40 /\ \A k \in 1..Len(h) : h[k] = "0"
                    /\ Printed("git_error", r) = Len(records)
                    /\ Printed("git_stderr", r) = Len(records)
                    /\ Printed("git_missing", r) = 0
               [] git[r].kind = "FileNotFoundError" ->
                    /\ \A h \in hashes : h = <<>>
                    /\ Printed("git_error", r) = 0
                    /\ Printed("git_missing", r) = Len(records)

C7_Witness ==
    /\ pc = "done"
    /\ \E k \in 1..Len(Emitted) : Emitted[k][COMMIT_HASH] = <<>>
    /\ \E r \in 1..MaxRepos : Printed("git_missing", r) >= 2

(***************************************************************************)
(* C8: an npm repository without package-lock.json gets one printed line   *)
(* and no indirect record, and the run goes on: at its end the report      *)
(* holds the pip records of every requirements.txt, the direct records of  *)
(* every package.json and the indirect records of every lockfile there is. *)
(***************************************************************************)
C8_MissingLockfileIsSkipped ==
    /\ pc # "crashed"
    /\ pc = "done" =>
         \A r \in 1..MaxRepos :
            /\ tree[r].has_req =>
                 Len(RecordsOf(FilePath(r, REQUIREMENTS_TXT)))
                    = Count(tree[r].req, LAMBDA line : ParseRequirement(line).emit)
            /\ tree[r].has_pkg =>
                 /\ Column(RecordsOf(FilePath(r, PACKAGE_JSON)), NAME)
                       = [k \in 1..Len(tree[r].pkg) |-> tree[r].pkg[k].name]
                 /\ IF tree[r].has_lock
                    THEN /\ Printed("lock_missing", r) = 0
                         /\ Len(RecordsOf(FilePath(r, PACKAGE_LOCK_JSON)))
                               = Count(tree[r].lock,
                                       LAMBDA e : ResolveEntry(
                                           e, direct_dependencies(tree[r].lock)).emit)
                    ELSE /\ Printed("lock_missing", r) = 1
                         /\ RecordsOf(FilePath(r, PACKAGE_LOCK_JSON)) = <<>>

C8_Witness ==
    /\ pc = "done"
    /\ tree[1].has_pkg /\ ~tree[1].has_lock
    /\ tree[2].has_pkg /\ tree[2].has_lock
    /\ Printed("lock_missing", 1) = 1
    /\ RecordsOf(FilePath(2, PACKAGE_LOCK_JSON)) # <<>>
    /\ RecordsOf(FilePath(1, PACKAGE_JSON)) # <<>>

(***************************************************************************)
(* C9: the step over a lockfile entry marked "dev": true never makes a     *)
(* record, whatever the entry's name and depth.                            *)
(***************************************************************************)
C9_DevEntryNeverEmitted ==
    [][(pc = "indirect_entries" /\ j <= Len(CurrentLock) /\ CurrentLock[j].dev = "true")
          => indirect_dependencies' = indirect_dependencies]_vars

C9_Witness ==
    /\ pc = "indirect_entries"
    /\ j > 1
    /\ CurrentLock[j - 1].dev = "true"
    /\ CurrentLock[j - 1].path = KeyNestedSemver
    /\ LastSegment(CurrentLock[j - 1].path) \notin direct_dependencies(CurrentLock)
    /\ package_name(CurrentLock[j - 1].path) \notin direct_dependencies(CurrentLock)
    /\ RecordsOf(FilePath(CurrentRepo, PACKAGE_LOCK_JSON)) = <<>>

(***************************************************************************)
(* C10, as the specification words it: of a line with several comparison   *)
(* clauses only the first is recorded, so no recorded pip version holds a  *)
(* comma or what follows it.                                               *)
(***************************************************************************)
PipRecords == SelectSeq(Emitted, LAMBDA rec : rec[TYPE] = PIP)

C10_LaterClausesTruncated ==
    \A k \in 1..Len(PipRecords) :
        PipRecords[k][VERSION] # None =>
            PipRecords[k][VERSION] = BeforeFirst(PipRecords[k][VERSION], <<",">>)

(***************************************************************************)
(* C10, amended: the recorded version is the first operator followed by    *)
(* the whole rest of the line once its comment is cut off, later clauses   *)
(* included: the line is the name, blanks, and the version. For            *)
(* pkg>=1.0,<2.0 the version is >=1.0,<2.0.                                *)
(***************************************************************************)
PKG == <<"p", "k", "g">>
BOTH_CLAUSES == <<">", "=", "1", ".", "0", ",", "<", "2", ".", "0">>

IsNameBlanksVersion(line, name, version) ==
    LET d == Strip(BeforeFirst(Strip(line), <<"#">>))
        n == Len(d) - Len(name) - Len(version)
    IN  /\ n >= 0
        /\ SubSeq(d, 1, Len(name)) = name
        /\ SubSeq(d, Len(d) - Len(version) + 1, Len(d)) = version
        /\ \A k \in (Len(name) + 1)..(Len(name) + n) : d[k] \in Whitespace

C10_WholeRemainderKept ==
    \A r \in 1..MaxRepos :
        LET records == SelectSeq(Emitted,
                                 LAMBDA rec : rec[PATH] = FilePath(r, REQUIREMENTS_TXT))
        IN  \A k \in 1..Len(records) :
               records[k][VERSION] # None =>
                  /\ records[k][VERSION][1] \in OpChars
                  /\ \E m \in 1..Len(tree[r].req) :
                        IsNameBlanksVersion(tree[r].req[m], records[k][NAME],
                                            records[k][VERSION])
                  /\ records[k][NAME] = PKG => records[k][VERSION] = BOTH_CLAUSES

C10_Witness ==
    /\ pc = "done"
    /\ \E k \in 1..Len(PipRecords) :
          PipRecords[k][NAME] = PKG /\ PipRecords[k][VERSION] = BOTH_CLAUSES

=============================================================================
